---- MODULE Spec2Model ----
(***************************************************************************)
(* Worker-pool load balancer of core/vm/contracts.go (package balancer):   *)
(* Task, Worker, Pool (container/heap over pending counts), Balancer, New, *)
(* Push, balance, dispatch, completed; and the gas gate of the precompiled  *)
(* contracts of the same file (package vm): RunPrecompiledContract.        *)
(*                                                                         *)
(* Go channels are modelled with their runtime semantics: a buffered       *)
(* channel is a FIFO buffer of bounded capacity plus the FIFO queue of     *)
(* blocked senders; a receive from a full buffer moves the first blocked   *)
(* sender's value into the buffer in the same step.                        *)
(***************************************************************************)
EXTENDS Integers, Sequences, FiniteSets, TLC

(* ---- bounds of the model ---------------------------------------------- *)
MaxPool == 2        \* largest poolSize given to New
MaxTasks == 12      \* number of tasks submitted through Push
MaxHang == 1        \* number of submitted tasks whose work function never returns
MaxFairTasks == 4   \* tasks submitted in the liveness specification
MaxLoopTasks == 6   \* tasks submitted in the dispatch-loop specification
MaxHeapPool == 3    \* largest poolSize in the specification of the heap operations
MaxHeapTasks == 4   \* tasks submitted in the specification of the heap operations
MaxDebt == 1        \* completed is applied while pending > -MaxDebt
MaxGas == 6         \* largest Contract.Gas a precompile is called with
MaxWords == 1       \* full 32-byte words in the inputs given to a precompile
MaxWordGas == 2     \* largest per-word price (params.*WordGas)
MaxBaseGas == 3     \* largest base price (params.*Gas)

(* ---- program constants ------------------------------------------------ *)
IngressFactor == 10     \* work: make(chan Task, poolSize*10)
WorkerQueueCap == 5000  \* tasks: make(chan Task, 5000)

None == 0               \* no task (zero value of the loop variable)

PoolSizes == (0 - 1) .. MaxPool
TaskIds == 1 .. MaxTasks

VARIABLES
    poolSize,   \* argument of New
    status,     \* "running" after New returned, "panic" after a runtime panic
    work,       \* Balancer.work: buffer of the ingress channel
    sendq,      \* Balancer.work: tasks of the Push calls blocked on the channel
    done,       \* Balancer.done: buffer of the completion channel
    pool,       \* Balancer.pool: the heap's backing array (worker ids)
    pending,    \* Worker.pending
    index,      \* Worker.index
    wtasks,     \* Worker.tasks: buffer of each worker's own channel
    pc,         \* position of each worker goroutine in Worker.work
    cur,        \* loop variable `task` of each worker goroutine
    res,        \* value returned by task.fn(), about to be sent on task.c
    next,       \* id of the next task a submitter creates with NewTask
    hang,       \* tasks whose work function never returns
    calls,      \* how many times each task's work function was invoked
    ret,        \* Task.c: the outcomes written to each task's return channel
    held,       \* task the dispatch loop has received and not yet handed over
    pre         \* the Contract's gas and the last call of RunPrecompiledContract

vars == <<poolSize, status, work, sendq, done, pool, pending, index, wtasks,
          pc, cur, res, next, hang, calls, ret, held, pre>>

heapVars == <<pool, pending, index, wtasks, done>>

(* ---- precompiled contracts -------------------------------------------- *)
Nil == <<>>

Precompiles == {"ecrecover", "sha256hash", "ripemd160hash", "dataCopy"}
\* Input lengths on both sides of each word boundary.
InputLens == {k * 32 + d : k \in 0 .. MaxWords, d \in 0 .. 1}
WordGasValues == 1 .. MaxWordGas
BaseGasValues == 1 .. MaxBaseGas

\* p.RequiredGas(input) for an input of n bytes. The prices are constants of
\* package params, whose values the file does not give: wg and bg range over
\* the positive prices.
RequiredGas(p, n, wg, bg) ==
    IF p = "ecrecover" THEN bg ELSE ((n + 31) \div 32) * wg + bg

\* p.Run(input): dataCopy returns its input, the hashes a 32-byte digest,
\* ecrecover a 32-byte address or nil for an invalid signature; none returns
\* an error.
Run(p, n, valid) ==
    IF p = "dataCopy" THEN [out |-> <<"input", n>>, err |-> "nil"]
    ELSE IF p = "ecrecover" /\ ~valid THEN [out |-> Nil, err |-> "nil"]
    ELSE [out |-> <<p, 32>>, err |-> "nil"]

\* contract.UseGas(gas): refuses when the contract has less gas left, else
\* deducts it.
UseGas(c, gas) ==
    IF c < gas THEN [ok |-> FALSE, Gas |-> c] ELSE [ok |-> TRUE, Gas |-> c - gas]

\* A contract with g gas on which no precompile has been called yet.
NoCall(g) ==
    [Gas |-> g, runs |-> 0, p |-> "none", n |-> 0, ok |-> FALSE, ran |-> FALSE,
     runOut |-> Nil, runErr |-> "nil", out |-> Nil, err |-> "nil"]

\* Faulty variant: p.Run is invoked before the gas is charged.
RunPrecompiledContract_RunFirst ==
    /\ \E p \in Precompiles, n \in InputLens, valid \in BOOLEAN,
          wg \in WordGasValues, bg \in BaseGasValues :
          LET r == Run(p, n, valid)
              u == UseGas(pre.Gas, RequiredGas(p, n, wg, bg))
          IN  pre' = [Gas |-> u.Gas, runs |-> pre.runs + (IF u.ok THEN 1 ELSE 0),
                      p |-> p, n |-> n, ok |-> u.ok, ran |-> TRUE,
                      runOut |-> r.out, runErr |-> r.err,
                      out |-> IF u.ok THEN r.out ELSE Nil,
                      err |-> IF u.ok THEN r.err ELSE "ErrOutOfGas"]
    /\ UNCHANGED <<poolSize, status, work, sendq, done, pool, pending, index,
                   wtasks, pc, cur, res, next, hang, calls, ret, held>>

\* RunPrecompiledContract(p, input, contract): gas := p.RequiredGas(input);
\* if contract.UseGas(gas) { return p.Run(input) } else { return nil,
\* ErrOutOfGas }.
RunPrecompiledContract ==
    /\ \E p \in Precompiles, n \in InputLens, valid \in BOOLEAN,
          wg \in WordGasValues, bg \in BaseGasValues :
          LET gas == RequiredGas(p, n, wg, bg)
              u == UseGas(pre.Gas, gas)
              r == Run(p, n, valid)
          IN  IF u.ok
              THEN pre' = [Gas |-> u.Gas, runs |-> pre.runs + 1,
                           p |-> p, n |-> n, ok |-> TRUE, ran |-> TRUE,
                           runOut |-> r.out, runErr |-> r.err,
                           out |-> r.out, err |-> r.err]
              ELSE pre' = [Gas |-> u.Gas, runs |-> pre.runs,
                           p |-> p, n |-> n, ok |-> FALSE, ran |-> FALSE,
                           runOut |-> Nil, runErr |-> "nil",
                           out |-> Nil, err |-> "ErrOutOfGas"]
    /\ UNCHANGED <<poolSize, status, work, sendq, done, pool, pending, index,
                   wtasks, pc, cur, res, next, hang, calls, ret, held>>

(* ---- Task ------------------------------------------------------------- *)
\* The value task t's work function returns when it returns: 0 is nil, 1 and
\* 2 are two distinct errors.
FnResult(t) == t % 3

\* Worker ids as New assigns them: id: i for i := 0; i < poolSize; i++.
Workers == 0 .. (poolSize - 1)

(* ---- channels --------------------------------------------------------- *)
\* Faulty variants: the ingress channel sized like the done channel; unbuffered.
WorkCap_AsDone == poolSize

WorkCap_Unbuffered == poolSize * 0

\* cap(b.work)
WorkCap == poolSize * IngressFactor

\* ch <- v on a channel with buffer buf, capacity c and blocked senders q:
\* the value enters the buffer when there is room, else the sender blocks.
ChanSend(buf, q, c, v) ==
    IF Len(buf) < c /\ q = <<>>
    THEN [buf |-> Append(buf, v), q |-> q]
    ELSE [buf |-> buf, q |-> Append(q, v)]

ChanCanRecv(buf, q) == buf # <<>> \/ q # <<>>

\* <-ch: the oldest value; the first blocked sender, if any, is released and
\* its value takes the freed slot (or is handed over directly when the
\* channel has no buffer).
ChanRecv(buf, q) ==
    IF buf # <<>>
    THEN [v |-> Head(buf),
          buf |-> IF q # <<>> THEN Append(Tail(buf), Head(q)) ELSE Tail(buf),
          q |-> IF q # <<>> THEN Tail(q) ELSE q]
    ELSE [v |-> Head(q), buf |-> buf, q |-> Tail(q)]

\* The buffer of a Worker.tasks channel (capacity 5000) is kept as the
\* sequence of its maximal runs <<first, last>> of consecutive task ids, in
\* order: the same FIFO contents, written shortly.
RECURSIVE QLen(_)
QLen(q) == IF q = <<>> THEN 0 ELSE (q[1][2] - q[1][1] + 1) + QLen(Tail(q))

QAppend(q, t) ==
    IF q # <<>> /\ q[Len(q)][2] + 1 = t
    THEN [q EXCEPT ![Len(q)] = <<@[1], t>>]
    ELSE Append(q, <<t, t>>)

QHead(q) == q[1][1]

QTail(q) ==
    IF q[1][1] = q[1][2] THEN Tail(q) ELSE [q EXCEPT ![1] = <<@[1] + 1, @[2]>>]

(* ---- Pool: heap.Interface --------------------------------------------- *)
\* A heap value h is [pool, index, pending]; position i of the Go slice is
\* h.pool[i + 1].
At(h, i) == h.pool[i + 1]

\* Faulty variant: the comparison reversed.
Less_Greater(h, i, j) == h.pending[At(h, i)] > h.pending[At(h, j)]

Less(h, i, j) == h.pending[At(h, i)] < h.pending[At(h, j)]

\* Faulty variant: the elements trade places, their index fields are not updated.
Swap_NoIndex(h, i, j) ==
    [h EXCEPT !.pool = [h.pool EXCEPT ![i + 1] = h.pool[j + 1],
                                      ![j + 1] = h.pool[i + 1]]]

Swap(h, i, j) ==
    [h EXCEPT !.index = [h.index EXCEPT ![At(h, i)] = j, ![At(h, j)] = i],
              !.pool = [h.pool EXCEPT ![i + 1] = h.pool[j + 1],
                                      ![j + 1] = h.pool[i + 1]]]

PoolPush(h, w) ==
    [h EXCEPT !.index = [h.index EXCEPT ![w] = Len(h.pool)],
              !.pool = Append(h.pool, w)]

\* Faulty variant: the last element is returned and the slice is not shortened.
PoolPop_NoShrink(h) == h

PoolPop(h) == [h EXCEPT !.pool = SubSeq(h.pool, 1, Len(h.pool) - 1)]

(* ---- container/heap --------------------------------------------------- *)
RECURSIVE up(_, _)
up(h, j) ==
    LET i == IF j = 0 THEN 0 ELSE (j - 1) \div 2
    IN  IF i = j \/ ~Less(h, j, i) THEN h ELSE up(Swap(h, i, j), i)

RECURSIVE down(_, _, _)
down(h, i, n) ==
    LET j1 == 2 * i + 1
        j2 == j1 + 1
        j == IF j2 < n /\ Less(h, j2, j1) THEN j2 ELSE j1
    IN  IF j1 >= n THEN h
        ELSE IF ~Less(h, j, i) THEN h
        ELSE down(Swap(h, i, j), j, n)

\* Faulty variant: the pushed element is not sifted up.
HeapPush_NoUp(h, w) == PoolPush(h, w)

HeapPush(h, w) == up(PoolPush(h, w), Len(h.pool))

\* heap.Remove(h, i): the element at i is swapped with the last one, the
\* element moved to i is sifted down or, if that did not move it, up.
HeapRemove(h, i) ==
    LET n == Len(h.pool) - 1
        s == Swap(h, i, n)
        d == down(s, i, n)
    IN  IF n # i
        THEN PoolPop(IF d = s THEN up(s, i) ELSE d)
        ELSE PoolPop(h)

\* heap.Pop: the heap after the pop; the popped worker is At(h, 0).
HeapPop(h) ==
    LET n == Len(h.pool) - 1
    IN  PoolPop(down(Swap(h, 0, n), 0, n))

(* ---- New -------------------------------------------------------------- *)
RECURSIVE NewPool(_, _)
NewPool(h, i) ==
    IF i >= poolSize THEN h ELSE NewPool(HeapPush(h, i), i + 1)

\* make(chan *Worker, poolSize) panics for a negative size; otherwise New
\* fills the pool, spawns one worker goroutine per worker on b.work and
\* returns the balancer. The dispatch loop is not spawned.
InitWith(sizes, gases) ==
    /\ poolSize \in sizes
    /\ held = None
    /\ \E g \in gases : pre = NoCall(g)
    /\ status = IF poolSize < 0 THEN "panic" ELSE "running"
    /\ work = <<>>
    /\ sendq = <<>>
    /\ done = <<>>
    /\ LET h == NewPool([pool |-> <<>>,
                         index |-> [w \in Workers |-> 0],
                         pending |-> [w \in Workers |-> 0]], 0)
       IN  /\ pool = h.pool
           /\ index = h.index
           /\ pending = h.pending
    /\ wtasks = [w \in Workers |-> <<>>]
    /\ pc = [w \in Workers |-> "recv"]
    /\ cur = [w \in Workers |-> None]
    /\ res = [w \in Workers |-> 0]
    /\ next = 1
    /\ hang = {}
    /\ calls = [t \in TaskIds |-> 0]
    /\ ret = [t \in TaskIds |-> <<>>]

InitFor(sizes) == InitWith(sizes, {0})

Init == InitFor(PoolSizes)

(* ---- Balancer.Push ---------------------------------------------------- *)
\* A submitter builds the next task (whose work function returns or not) and
\* calls b.Push(task): b.work <- work.
\* kinds: whether the work functions submitted may be ones that never return.
SubmitKinds(limit, kinds) ==
    /\ status = "running"
    /\ next <= limit
    /\ \E h \in kinds :
          /\ h => Cardinality(hang) < MaxHang
          /\ hang' = IF h THEN hang \cup {next} ELSE hang
    /\ LET s == ChanSend(work, sendq, WorkCap, next)
       IN  /\ work' = s.buf
           /\ sendq' = s.q
    /\ next' = next + 1
    /\ UNCHANGED <<held, pre, poolSize, status, pc, cur, res, calls, ret>>
    /\ UNCHANGED heapVars

Submit(limit) == SubmitKinds(limit, BOOLEAN)

Push == Submit(MaxTasks)

(* ---- Worker.work, spawned as worker.work(balancer.work) ---------------- *)
\* for task := range tasks: take the oldest task of the channel the goroutine
\* was given, and call its work function.
WorkRecv(w) ==
    /\ status = "running"
    /\ pc[w] = "recv"
    /\ ChanCanRecv(work, sendq)
    /\ LET r == ChanRecv(work, sendq)
       IN  /\ work' = r.buf
           /\ sendq' = r.q
           /\ cur' = [cur EXCEPT ![w] = r.v]
           /\ calls' = [calls EXCEPT ![r.v] = @ + 1]
    /\ pc' = [pc EXCEPT ![w] = "run"]
    /\ UNCHANGED <<held, pre, poolSize, status, res, next, hang, ret>>
    /\ UNCHANGED heapVars

\* Faulty variant: a failed task is skipped (continue) instead of being answered.
WorkReturn_SkipFailed(w) ==
    /\ status = "running"
    /\ pc[w] = "run"
    /\ cur[w] \notin hang
    /\ IF FnResult(cur[w]) # 0
       THEN /\ pc' = [pc EXCEPT ![w] = "recv"]
            /\ cur' = [cur EXCEPT ![w] = None]
            /\ res' = res
       ELSE /\ pc' = [pc EXCEPT ![w] = "send"]
            /\ cur' = cur
            /\ res' = [res EXCEPT ![w] = FnResult(cur[w])]
    /\ UNCHANGED <<held, pre, poolSize, status, work, sendq, next, hang, calls, ret>>
    /\ UNCHANGED heapVars

\* task.fn() returns (never, for a task whose work function hangs).
WorkReturn(w) ==
    /\ status = "running"
    /\ pc[w] = "run"
    /\ cur[w] \notin hang
    /\ res' = [res EXCEPT ![w] = FnResult(cur[w])]
    /\ pc' = [pc EXCEPT ![w] = "send"]
    /\ UNCHANGED <<held, pre, poolSize, status, work, sendq, cur, next, hang, calls, ret>>
    /\ UNCHANGED heapVars

\* Faulty variant: only a nil outcome is written to the return channel.
WorkSend_DropErr(w) ==
    /\ status = "running"
    /\ pc[w] = "send"
    /\ ret' = IF res[w] = 0 THEN [ret EXCEPT ![cur[w]] = Append(@, res[w])] ELSE ret
    /\ pc' = [pc EXCEPT ![w] = "recv"]
    /\ cur' = [cur EXCEPT ![w] = None]
    /\ res' = [res EXCEPT ![w] = 0]
    /\ UNCHANGED <<held, pre, poolSize, status, work, sendq, next, hang, calls>>
    /\ UNCHANGED heapVars

\* Faulty variant: every failure is reported as the same error value.
WorkSend_OneError(w) ==
    /\ status = "running"
    /\ pc[w] = "send"
    /\ ret' = [ret EXCEPT ![cur[w]] = Append(@, IF res[w] = 0 THEN 0 ELSE 1)]
    /\ pc' = [pc EXCEPT ![w] = "recv"]
    /\ cur' = [cur EXCEPT ![w] = None]
    /\ res' = [res EXCEPT ![w] = 0]
    /\ UNCHANGED <<held, pre, poolSize, status, work, sendq, next, hang, calls>>
    /\ UNCHANGED heapVars

\* task.c <- result; the submitter is reading task.c. The completion signal
\* (done <- w) is commented out: the goroutine goes back to the range, its
\* loop variable dead until the next receive.
\* Faulty variant: the worker takes one off its own pending count when it
\* answers, a second writer of the heap state.
WorkSend_OwnPending(w) ==
    /\ status = "running"
    /\ pc[w] = "send"
    /\ ret' = [ret EXCEPT ![cur[w]] = Append(@, res[w])]
    /\ pc' = [pc EXCEPT ![w] = "recv"]
    /\ cur' = [cur EXCEPT ![w] = None]
    /\ res' = [res EXCEPT ![w] = 0]
    /\ pending' = [pending EXCEPT ![w] = @ - 1]
    /\ UNCHANGED <<held, pre, poolSize, status, work, sendq, next, hang, calls>>
    /\ UNCHANGED <<pool, index, wtasks, done>>

\* Faulty variant: the send "done <- w" of line 242 left in.
WorkSend_SignalDone(w) ==
    /\ status = "running"
    /\ pc[w] = "send"
    /\ Len(done) < poolSize
    /\ ret' = [ret EXCEPT ![cur[w]] = Append(@, res[w])]
    /\ pc' = [pc EXCEPT ![w] = "recv"]
    /\ cur' = [cur EXCEPT ![w] = None]
    /\ res' = [res EXCEPT ![w] = 0]
    /\ done' = Append(done, w)
    /\ UNCHANGED <<held, pre, poolSize, status, work, sendq, next, hang, calls>>
    /\ UNCHANGED <<pool, index, pending, wtasks>>

WorkSend(w) ==
    /\ status = "running"
    /\ pc[w] = "send"
    /\ ret' = [ret EXCEPT ![cur[w]] = Append(@, res[w])]
    /\ pc' = [pc EXCEPT ![w] = "recv"]
    /\ cur' = [cur EXCEPT ![w] = None]
    /\ res' = [res EXCEPT ![w] = 0]
    /\ UNCHANGED <<held, pre, poolSize, status, work, sendq, next, hang, calls>>
    /\ UNCHANGED heapVars

\* Faulty variant: the go statement after the loop, spawning the last worker only.
Spawned_OnlyLast == {w \in Workers : w = poolSize - 1}

\* The worker goroutines New spawns.
Spawned == Workers

WorkerStep(w) == WorkRecv(w) \/ WorkReturn(w) \/ WorkSend(w)

Recv == \E w \in Spawned : WorkRecv(w)
Return == \E w \in Spawned : WorkReturn(w)
Send == \E w \in Spawned : WorkSend(w)

(* ---- the program as New builds it ------------------------------------- *)
Next == Push \/ Recv \/ Return \/ Send

Spec == Init /\ [][Next]_vars

\* The same program with fewer submissions, for the liveness checks. The Go
\* scheduler runs every goroutine that can take a step: weak fairness of each
\* worker goroutine.
PushFair == Submit(MaxFairTasks)

NextFair == PushFair \/ Recv \/ Return \/ Send

FairSpec ==
    /\ Init
    /\ [][NextFair]_vars
    /\ \A w \in 0 .. (MaxPool - 1) : WF_vars(w \in Spawned /\ WorkerStep(w))

(* ---- Balancer.balance, Balancer.dispatch ------------------------------ *)
\* Faulty variant: w.pending++ left out.
dispatch_NoCount(task) ==
    IF pool = <<>>
    THEN /\ status' = "panic"
         /\ UNCHANGED <<pool, index, pending, wtasks>>
    ELSE LET h0 == [pool |-> pool, index |-> index, pending |-> pending]
             w == At(h0, 0)
             h1 == HeapPop(h0)
             h3 == HeapPush(h1, w)
         IN  /\ QLen(wtasks[w]) < WorkerQueueCap
             /\ wtasks' = [wtasks EXCEPT ![w] = QAppend(@, task)]
             /\ pool' = h3.pool
             /\ index' = h3.index
             /\ pending' = h3.pending
             /\ UNCHANGED status

\* Faulty variant: after the pop the count is added to the worker now at the
\* root instead of the worker popped.
dispatch_CountRoot(task) ==
    IF pool = <<>>
    THEN /\ status' = "panic"
         /\ UNCHANGED <<pool, index, pending, wtasks>>
    ELSE LET h0 == [pool |-> pool, index |-> index, pending |-> pending]
             w == At(h0, 0)
             h1 == HeapPop(h0)
             r == IF h1.pool = <<>> THEN w ELSE At(h1, 0)
             h2 == [h1 EXCEPT !.pending = [h1.pending EXCEPT ![r] = @ + 1]]
             h3 == HeapPush(h2, w)
         IN  /\ QLen(wtasks[w]) < WorkerQueueCap
             /\ wtasks' = [wtasks EXCEPT ![w] = QAppend(@, task)]
             /\ pool' = h3.pool
             /\ index' = h3.index
             /\ pending' = h3.pending
             /\ UNCHANGED status

\* dispatch(task): heap.Pop the least loaded worker, w.tasks <- task,
\* w.pending++, heap.Push it back. heap.Pop on an empty pool panics (index
\* out of range in Pool.Swap).
dispatch(task) ==
    IF pool = <<>>
    THEN /\ status' = "panic"
         /\ UNCHANGED <<pool, index, pending, wtasks>>
    ELSE LET h0 == [pool |-> pool, index |-> index, pending |-> pending]
             w == At(h0, 0)
             h1 == HeapPop(h0)
             h2 == [h1 EXCEPT !.pending = [h1.pending EXCEPT ![w] = @ + 1]]
             h3 == HeapPush(h2, w)
         IN  /\ QLen(wtasks[w]) < WorkerQueueCap
             /\ wtasks' = [wtasks EXCEPT ![w] = QAppend(@, task)]
             /\ pool' = h3.pool
             /\ index' = h3.index
             /\ pending' = h3.pending
             /\ UNCHANGED status

\* balance: case task := <-work: b.dispatch(task). The other case,
\* w := <-b.done, never fires: nothing sends on b.done.
BalanceDispatch ==
    /\ status = "running"
    /\ ChanCanRecv(work, sendq)
    /\ LET r == ChanRecv(work, sendq)
       IN  /\ work' = r.buf
           /\ sendq' = r.q
           /\ dispatch(r.v)
    /\ UNCHANGED <<held, pre, poolSize, done, pc, cur, res, next, hang, calls, ret>>

\* The balancer with its dispatch loop running beside the workers of New:
\* go balancer.balance(balancer.work).
PushLoop == Submit(MaxLoopTasks)

NextLoop == PushLoop \/ Recv \/ Return \/ Send \/ BalanceDispatch

SpecLoop == Init /\ [][NextLoop]_vars

(* ---- Balancer.completed ----------------------------------------------- *)
\* completed(w): w.pending--, heap.Remove(&b.pool, w.index), heap.Push.
completed(w) ==
    LET h0 == [pool |-> pool, index |-> index,
               pending |-> [pending EXCEPT ![w] = @ - 1]]
        h1 == HeapRemove(h0, h0.index[w])
        h2 == HeapPush(h1, w)
    IN  /\ pool' = h2.pool
        /\ index' = h2.index
        /\ pending' = h2.pending

\* balance: case w := <-b.done: b.completed(w). No code sends on b.done, so
\* the worker handed to completed is drawn from the workers of the pool.
BalanceCompleted ==
    /\ status = "running"
    /\ \E w \in Workers :
          /\ pending[w] > 0 - MaxDebt
          /\ completed(w)
    /\ UNCHANGED <<held, pre, poolSize, status, work, sendq, done, wtasks, pc, cur, res,
                   next, hang, calls, ret>>

\* The two operations of the dispatch loop on the pool of New(n), n >= 1, in
\* any order. The worker goroutines touch none of the pool's state and are
\* left out; the tasks submitted are ones that return.
PushHeap == SubmitKinds(MaxHeapTasks, {FALSE})

NextHeap == PushHeap \/ BalanceDispatch \/ BalanceCompleted

SpecHeap == InitFor(1 .. MaxHeapPool) /\ [][NextHeap]_vars

(* ---- the dispatch loop filling a worker's own queue -------------------- *)
\* One more task than a worker's own queue holds.
MaxFillTasks == WorkerQueueCap + 1

\* A caller that pushes its next task once the ingress queue has drained.
PushFill ==
    /\ work = <<>>
    /\ sendq = <<>>
    /\ SubmitKinds(MaxFillTasks, {FALSE})

\* balance: case task := <-work.
BalanceRecv ==
    /\ status = "running"
    /\ held = None
    /\ ChanCanRecv(work, sendq)
    /\ LET r == ChanRecv(work, sendq)
       IN  /\ work' = r.buf
           /\ sendq' = r.q
           /\ held' = r.v
    /\ UNCHANGED <<pre, poolSize, status, done, pool, pending, index, wtasks,
                   pc, cur, res, next, hang, calls, ret>>

\* balance: b.dispatch(task), which waits in w.tasks <- task while the
\* queue of the least loaded worker is full.
BalanceSend ==
    /\ status = "running"
    /\ held # None
    /\ dispatch(held)
    /\ held' = None
    /\ UNCHANGED <<pre, poolSize, work, sendq, done, pc, cur, res, next, hang,
                   calls, ret>>

NextFill == PushFill \/ BalanceRecv \/ BalanceSend

\* The dispatch loop of a one-worker balancer, scheduled before the worker
\* whenever a task is in the ingress queue.
SpecFill ==
    /\ InitFor({1})
    /\ [][NextFill]_vars
    /\ WF_vars(PushFill)
    /\ WF_vars(BalanceRecv)
    /\ WF_vars(BalanceSend)

(* ---- RunPrecompiledContract on one contract ---------------------------- *)
NextGas == RunPrecompiledContract

SpecGas == InitWith({1}, 0 .. MaxGas) /\ [][NextGas]_vars

(* ======================================================================= *)
(* Properties                                                              *)
(* ======================================================================= *)
InSeq(s, t) == \E k \in 1 .. Len(s) : s[k] = t

\* Push(t) was called / has returned.
Pushed(t) == t < next
Accepted(t) == Pushed(t) /\ ~InSeq(sendq, t)

\* Task t's work function was invoked and its outcome is not yet written.
Outstanding(t) == calls[t] >= 1 /\ ret[t] = <<>>

\* Every worker goroutine is inside a work function that never returns.
AllStuck == \A w \in Workers : pc[w] = "run" /\ cur[w] \in hang

\* No task is answered or executed twice, and an accepted task is in the
\* ingress queue, in a worker's hands or answered.
NoDuplicateNoDrop ==
    \A t \in TaskIds :
        /\ Len(ret[t]) <= 1
        /\ calls[t] <= 1
        /\ ret[t] # <<>> => calls[t] = 1
        /\ Accepted(t) =>
              \/ InSeq(work, t)
              \/ \E w \in Workers : cur[w] = t /\ pc[w] \in {"run", "send"}
              \/ Len(ret[t]) = 1

\* C1 as stated: for New(n), n >= 1, every task handed to Push whose work
\* function terminates eventually has exactly one outcome on its return
\* channel; nothing is executed or answered twice, nothing accepted is dropped.
C1_ExactlyOnce_AsStated ==
    /\ []NoDuplicateNoDrop
    /\ \A t \in TaskIds :
          (poolSize >= 1 /\ Pushed(t) /\ t \notin hang) ~> (Len(ret[t]) = 1)

\* C1 amended: the same, unless every worker is held forever by a work
\* function that does not terminate.
C1_ExactlyOnce ==
    /\ []NoDuplicateNoDrop
    /\ \A t \in TaskIds :
          (poolSize >= 1 /\ Pushed(t) /\ t \notin hang)
              ~> (Len(ret[t]) = 1 \/ AllStuck)

\* A task submitted after a hanging one is answered while a worker is stuck.
C1_Witness ==
    /\ poolSize = 2
    /\ \E w \in Workers : cur[w] = 1 /\ 1 \in hang
    /\ Len(ret[2]) = 1 /\ Len(ret[3]) = 1

\* C2: every task leaving the ingress queue is put by the dispatch loop on
\* the inbound queue of a worker whose pending count is minimal at that
\* moment (and is counted in that worker's pending).
C2_LeastLoadedDispatch ==
    [][(ChanCanRecv(work, sendq) /\ Len(work') + Len(sendq') < Len(work) + Len(sendq))
         => \E w \in Workers :
               /\ \A u \in Workers : pending[w] <= pending[u]
               /\ wtasks' = [wtasks EXCEPT ![w] = QAppend(@, ChanRecv(work, sendq).v)]
               /\ pending' = [pending EXCEPT ![w] = @ + 1]]_vars

RECURSIVE SumOver(_, _)
SumOver(f, S) ==
    IF S = {} THEN 0
    ELSE LET x == CHOOSE y \in S : TRUE IN f[x] + SumOver(f, S \ {x})

\* Tasks dispatched so far (nothing drains the inbound queues in SpecLoop, and
\* no completion is ever processed there).
Dispatched == SumOver([w \in Workers |-> QLen(wtasks[w])], Workers)

\* C3: from N >= 1 workers with pending 0, after M dispatches and no
\* completion, max pending <= ceil(M/N), any two pending counts differ by at
\* most 1, and the pending counts sum to M.
C3_EvenDistribution ==
    (poolSize >= 1 /\ status = "running") =>
        /\ SumOver(pending, Workers) = Dispatched
        /\ \A w \in Workers : pending[w] * poolSize <= Dispatched + poolSize - 1
        /\ \A w, u \in Workers : pending[w] - pending[u] <= 1

C3_Witness ==
    /\ poolSize = 2
    /\ Dispatched = 5
    /\ \E w, u \in Workers : pending[w] = 3 /\ pending[u] = 2

\* C4: a worker that has written an outcome signals the dispatcher on the
\* done queue before it takes its next task, and in a quiescent system every
\* pending count is 0.
C4_CompletionAccounting ==
    /\ [](((\A w \in Workers : pc[w] = "recv") /\ work = <<>> /\ done = <<>>)
            => \A w \in Workers : pending[w] = 0)
    /\ [][\A w \in Workers :
            (pc[w] = "send" /\ pc'[w] = "recv") => done' = Append(done, w)]_vars

\* C5: a worker takes a task only from the head of its own inbound queue and
\* never from the shared ingress queue.
C5_OwnInboundQueue ==
    [][\A w \in Workers :
         (pc[w] = "recv" /\ pc'[w] = "run") =>
            /\ wtasks[w] # <<>>
            /\ cur'[w] = QHead(wtasks[w])
            /\ wtasks' = [wtasks EXCEPT ![w] = QTail(@)]
            /\ work' = work /\ sendq' = sendq]_vars

\* C6: when a worker starts the work function of a task, every task started
\* earlier and not yet answered is in the hands of another worker: all the
\* tasks this worker received before have their outcome written.
C6_PerWorkerFIFO ==
    [][\A w \in Workers :
         (pc[w] = "recv" /\ pc'[w] = "run") =>
            \A t \in TaskIds :
               Outstanding(t) => \E u \in Workers \ {w} : cur[u] = t]_vars

\* The single worker of New(1) has answered task 1 and is running task 2.
C6_Witness ==
    /\ poolSize = 1
    /\ Len(ret[1]) = 1
    /\ cur[0] = 2 /\ pc[0] = "run"

\* C7: New(poolSize) with poolSize <= 0 fails, and Push is never called on
\* its result.
C7_FailFast == poolSize <= 0 => (status = "panic" /\ next = 1)

\* C8: the ingress queue holds at most 10*poolSize tasks; a Push blocks only
\* while it is full and is neither rejected nor lost; an accepted task stays
\* in the queue until a receiver takes it.
C8_Backpressure ==
    status = "running" =>
    /\ Len(work) <= IngressFactor * poolSize
    /\ sendq # <<>> => Len(work) = IngressFactor * poolSize
    /\ \A t \in TaskIds :
          Pushed(t) <=> (InSeq(sendq, t) \/ InSeq(work, t) \/ calls[t] >= 1)
    /\ \A t \in TaskIds : ~(InSeq(work, t) /\ calls[t] >= 1)

\* The queue of New(1) is full, one Push is blocked behind it, and an earlier
\* blocked Push has got through.
C8_Witness ==
    /\ poolSize = 1
    /\ Len(work) = IngressFactor
    /\ Len(sendq) = 1
    /\ calls[1] = 1

\* C9: a Push made while the ingress queue has room puts the task in the
\* queue and returns, whatever the workers are doing, without any task being
\* executed or answered in that step; a task is executed and answered only
\* after its Push returned.
C9_PushAsync ==
    /\ [](\A t \in TaskIds : (calls[t] >= 1 \/ ret[t] # <<>>) => Accepted(t))
    /\ [][(next' = next + 1 /\ Len(work) < IngressFactor * poolSize) =>
            /\ work' = Append(work, next)
            /\ sendq' = sendq
            /\ calls' = calls /\ ret' = ret /\ pc' = pc]_vars

\* Both workers are inside work functions and three accepted tasks wait.
C9_Witness ==
    /\ poolSize = 2
    /\ \A w \in Workers : pc[w] = "run"
    /\ Len(work) = 3 /\ sendq = <<>>
    /\ \A k \in 1 .. 3 : calls[work[k]] = 0 /\ ret[work[k]] = <<>>

\* C10: pool of 2, task 1 long-running and submitted first: while task 1 is
\* still running on a worker, every other task that starts, starts on the
\* other worker; and when task 1 never returns, every instantaneous task
\* submitted after it is answered (task 1 still outstanding).
C10_ScenarioA ==
    /\ [][\A a \in Workers : \A t \in TaskIds \ {1} :
            (poolSize = 2 /\ cur[a] = 1 /\ pc[a] = "run" /\ calls'[t] > calls[t])
               => (cur'[a] = 1 /\ \E w \in Workers \ {a} : cur'[w] = t)]_vars
    /\ \A t \in TaskIds \ {1} :
          (poolSize = 2 /\ hang = {1} /\ Pushed(t))
              ~> ((Len(ret[t]) = 1 /\ Outstanding(1)) \/ hang # {1})

\* Scenario A: the long task is outstanding and the three tasks after it are
\* answered.
C10_Witness ==
    /\ poolSize = 2
    /\ hang = {1}
    /\ Outstanding(1)
    /\ \A t \in 2 .. 4 : Len(ret[t]) = 1

\* C11: whatever is written to a task's return channel is the value its own
\* work function returns (nil or its specific error), and the work function of
\* an answered task, failed or not, was invoked exactly once.
C11_OutcomePassthrough ==
    \A t \in TaskIds :
        /\ \A k \in 1 .. Len(ret[t]) : ret[t][k] = t % 3
        /\ ret[t] # <<>> => calls[t] = 1
        /\ \A w \in Workers : (pc[w] = "send" /\ cur[w] = t) => calls[t] = 1

\* Tasks 1, 2, 3 are answered: two different errors and nil.
C11_Witness ==
    /\ ret[1] = <<1>>
    /\ ret[2] = <<2>>
    /\ ret[3] = <<0>>

\* C12: after New and after every dispatch and completed, in any order, every
\* non-root position i of the pool has pending(parent(i)) <= pending(i).
C12_HeapOrder ==
    \A i \in 1 .. (Len(pool) - 1) :
        pending[pool[((i - 1) \div 2) + 1]] <= pending[pool[i + 1]]

\* Three workers with three different pending counts, one of them negative
\* after a completed, the largest one not at the end of the array.
C12_Witness ==
    /\ poolSize = 3
    /\ \E a, b, c \in Workers :
          /\ pool = <<a, b, c>>
          /\ pending[a] < pending[c] /\ pending[c] < pending[b]
          /\ pending[a] < 0
    /\ \E w \in Workers : QLen(wtasks[w]) >= 2

\* C13: between heap operations every worker held in the pool sits at the
\* position its index field names, so the index completed hands to
\* heap.Remove designates the worker itself.
C13_IndexConsistency ==
    \A k \in 1 .. Len(pool) : index[pool[k]] = k - 1

\* After dispatches and completions the array is no longer in id order.
C13_Witness ==
    /\ poolSize = 3
    /\ pool[1] = 2 /\ pool[3] = 0
    /\ pending[0] > pending[2]
    /\ \E w \in Workers : pending[w] < QLen(wtasks[w])

\* C14: between the events of the dispatch loop the pool holds each of the
\* poolSize workers of New exactly once, and heap.Pop in dispatch never finds
\* the pool empty when poolSize >= 1.
C14_PoolMembership ==
    poolSize >= 1 =>
        /\ Len(pool) = poolSize
        /\ \A w \in Workers : \E k \in 1 .. Len(pool) : pool[k] = w
        /\ status = "running"

C14_Witness ==
    /\ poolSize = 3
    /\ pool # <<0, 1, 2>>
    /\ \A w \in Workers : QLen(wtasks[w]) >= 1
    /\ \E w \in Workers : pending[w] = 0

\* C15: every worker's pending count is the number of tasks assigned to it
\* less the number of its completion signals processed, and is never
\* negative. No statement sends on b.done, so no completion is ever processed
\* and nothing is ever taken out of Worker.tasks: the count equals the length
\* of the worker's own queue.
C15_PendingAccuracy ==
    \A w \in Workers :
        /\ pending[w] = QLen(wtasks[w])
        /\ pending[w] >= 0

\* Tasks have been assigned unevenly while a worker has answered another one.
C15_Witness ==
    /\ poolSize = 2
    /\ pending[0] = 2 /\ pending[1] = 1
    /\ \E t \in TaskIds : ret[t] # <<>>

\* C16: a step of a worker (receive, return, send) or of a caller of Push
\* leaves the pool array and every pending and index field as they were; they
\* change only in a step of the dispatch loop, which also hands over a task.
C16_SingleWriter ==
    [][/\ (pc' # pc \/ next' # next \/ ret' # ret \/ calls' # calls)
             => UNCHANGED <<pool, pending, index>>
       /\ (<<pool, pending, index>>' # <<pool, pending, index>>)
             => /\ wtasks' # wtasks
                /\ UNCHANGED <<pc, cur, res, next, ret, calls, hang>>]_vars

\* The dispatch loop has reordered the pool while a worker is about to answer.
C16_Witness ==
    /\ poolSize = 2
    /\ pool = <<1, 0>>
    /\ pending[0] = 1
    /\ pc[0] = "send"

\* C17: dispatch adds 1 to the pending count of the worker extracted as the
\* minimum and to no other; completed(w) takes 1 from one worker's pending
\* count and from no other; both leave the set of workers in the pool as it
\* was.
C17_Frame ==
    [][/\ wtasks' # wtasks =>
             /\ \A u \in Workers : pending[pool[1]] <= pending[u]
             /\ pending' = [pending EXCEPT ![pool[1]] = @ + 1]
             /\ wtasks' = [wtasks EXCEPT ![pool[1]] = QAppend(@, ChanRecv(work, sendq).v)]
       /\ (wtasks' = wtasks /\ pending' # pending) =>
             \E w \in Workers :
                pending' = [pending EXCEPT ![w] = @ - 1]
       /\ {pool'[k] : k \in 1 .. Len(pool')} = {pool[k] : k \in 1 .. Len(pool)}
       /\ Len(pool') = Len(pool)]_vars

\* A worker that is not at the root has had a completion processed.
C17_Witness ==
    /\ poolSize = 3
    /\ \E w \in Workers :
          /\ pool[1] # w
          /\ QLen(wtasks[w]) = 2 /\ pending[w] = 1
    /\ pending[pool[1]] = 0

\* C19: in the system New starts, whatever is pushed and executed, every
\* pending count stays 0, the pool keeps the workers in the order New pushed
\* them, every worker's own queue stays empty and so does the done queue.
C19_WiringAsBuilt ==
    poolSize >= 0 =>
        /\ \A w \in Workers : pending[w] = 0 /\ index[w] = w /\ wtasks[w] = <<>>
        /\ Len(pool) = poolSize
        /\ \A k \in 1 .. Len(pool) : pool[k] = k - 1
        /\ done = <<>>

\* Two tasks answered, one by each worker's kind of outcome, more waiting.
C19_Witness ==
    /\ poolSize = 2
    /\ ret[1] # <<>> /\ ret[2] # <<>>
    /\ Len(work) >= 3
    /\ \E w \in Workers : pc[w] = "send"

\* The dispatch loop holds a task and the queue of the worker it would be
\* handed to is full.
DispatchBlocked ==
    /\ status = "running"
    /\ held # None
    /\ pool # <<>>
    /\ QLen(wtasks[pool[1]]) >= WorkerQueueCap

C20_GasGate ==
    pre.p # "none" =>
        /\ pre.ran = pre.ok
        /\ pre.ok => (pre.out = pre.runOut /\ pre.err = pre.runErr)
        /\ ~pre.ok => (pre.out = Nil /\ pre.err = "ErrOutOfGas")

\* A contract that paid for a precompile and cannot pay for a two-word hash.
C20_Witness ==
    /\ pre.p = "sha256hash" /\ pre.n = 33
    /\ ~pre.ok /\ ~pre.ran /\ pre.err = "ErrOutOfGas"
    /\ pre.runs >= 1
    /\ pre.Gas >= 1

====
